---- MODULE Spec2Model ----
(***************************************************************************)
(* Wavelength-vectorized optics of a planar multilayer (PyMoosh,           *)
(* vectorized.py): coefficient_S_opti_wavelength (S-matrix cascade),       *)
(* coefficient_A_opti_wavelength (Abeles product),                         *)
(* absorption_A_opti_wavelength (Poynting-flux absorption) and the two     *)
(* scalar sweep drivers spectrum and angular.                              *)
(*                                                                         *)
(* Numbers.  numpy's complex doubles are modelled by exact Gaussian        *)
(* rationals (re + i*im)/den, den > 0, in lowest terms, plus one           *)
(* non-finite value NaN (den = 0) that every division by zero produces and *)
(* every operation propagates; the model does not tell inf from nan.       *)
(* Wavevectors are kept in units of pi: k0 = 2*pi/wavelength is stored as  *)
(* 2/wavelength, so a phase gamma*thickness is stored as x with true value *)
(* pi*x.  exp(i*pi*x) is exact for real half-integer x (a power of i); for *)
(* a complex half-integer x the real factor exp(-pi/2) is replaced by the  *)
(* rational EHalfPi, which keeps exp a homomorphism (exp(a+b) =            *)
(* exp(a)exp(b), exp(0) = 1) with the right direction of decay.  A value   *)
(* outside this arithmetic is Inexact, and the inputs of the model are     *)
(* those on which the three routines return no Inexact value (Exact).      *)
(***************************************************************************)
EXTENDS Integers, Sequences, FiniteSets, TLC

(***************************************************************************)
(* Bounds of the model.                                                    *)
(***************************************************************************)
MaxLayers == 3
MaxLambda == 2
MaxThick == 2
MaxPoints == 2
SqrtMax == 24
IntMax == 1000000000
MaxWaveLayers == 4

(***************************************************************************)
(* Exact complex arithmetic.                                               *)
(***************************************************************************)
Abs(n) == IF n < 0 THEN -n ELSE n

RECURSIVE GCD(_, _)
GCD(a, b) == IF b = 0 THEN a ELSE GCD(b, a % b)

GCD3(a, b, c) == GCD(GCD(Abs(a), Abs(b)), Abs(c))

\* the non-finite value: the result of a division by zero
NaN == [re |-> 0, im |-> 0, den |-> 0]

\* a value this arithmetic cannot hold: an irrational square root, a
\* transcendental exponential, a product of integers beyond IntMax
Inexact == [re |-> 0, im |-> 0, den |-> -1]

IsNaN(z) == z.den = 0

IsInexact(z) == z.den < 0

\* a * b stays within IntMax
SafeMul(a, b) == a = 0 \/ Abs(b) <= IntMax \div Abs(a)

\* an operand that decides the result by itself
Special(x, y) == x.den <= 0 \/ y.den <= 0

SpecialOf(x, y) == IF IsInexact(x) \/ IsInexact(y) THEN Inexact ELSE NaN

\* (a + i*b)/d with the common factor g taken out and the sign of d moved up
Reduced(a, b, d, g) ==
    IF d < 0 THEN [re |-> (-a) \div g, im |-> (-b) \div g, den |-> (-d) \div g]
    ELSE [re |-> a \div g, im |-> b \div g, den |-> d \div g]

\* (a + i*b)/d in lowest terms, d # 0
Mk(a, b, d) == Reduced(a, b, d, GCD3(a, b, d))

Cx(a, b) == [re |-> a, im |-> b, den |-> 1]

Zero == Cx(0, 0)
One == Cx(1, 0)
Two == Cx(2, 0)
ImagUnit == Cx(0, 1)

\* x*p/(x.den*p) + y*q/(y.den*q), the two denominators being equal
AddOver(x, y, p, q) ==
    IF /\ SafeMul(x.re, p) /\ SafeMul(x.im, p) /\ SafeMul(x.den, p)
       /\ SafeMul(y.re, q) /\ SafeMul(y.im, q)
    THEN Mk(x.re * p + y.re * q, x.im * p + y.im * q, x.den * p)
    ELSE Inexact

AddBy(x, y, g) == AddOver(x, y, y.den \div g, x.den \div g)

\* x + y over the least common denominator
CAdd(x, y) ==
    IF Special(x, y) THEN SpecialOf(x, y) ELSE AddBy(x, y, GCD(x.den, y.den))

CNeg(x) == [re |-> -x.re, im |-> -x.im, den |-> x.den]

CSub(x, y) == CAdd(x, CNeg(y))

\* (xr + i*xi)/dx * (yr + i*yi)/dy
MulParts(xr, xi, yr, yi, dx, dy) ==
    IF /\ SafeMul(xr, yr) /\ SafeMul(xi, yi) /\ SafeMul(xr, yi) /\ SafeMul(xi, yr)
       /\ SafeMul(dx, dy)
    THEN Mk(xr * yr - xi * yi, xr * yi + xi * yr, dx * dy)
    ELSE Inexact

MulBy(x, y, g1, g2) ==
    MulParts(x.re \div g1, x.im \div g1, y.re \div g2, y.im \div g2,
             x.den \div g2, y.den \div g1)

\* x * y, each numerator reduced against the other denominator first
CMul(x, y) ==
    IF Special(x, y) THEN SpecialOf(x, y)
    ELSE MulBy(x, y, GCD3(x.re, x.im, y.den), GCD3(y.re, y.im, x.den))

CConj(x) == [re |-> x.re, im |-> -x.im, den |-> x.den]

\* d/(c*(yr + i*yi)) = d*(yr - i*yi)/(c*n), n = yr^2 + yi^2, g = gcd(d, n)
InvBy(yr, yi, c, d, n, g) ==
    IF /\ SafeMul(d \div g, yr) /\ SafeMul(d \div g, yi) /\ SafeMul(c, n \div g)
    THEN Mk((d \div g) * yr, -((d \div g) * yi), c * (n \div g))
    ELSE Inexact

InvNorm(yr, yi, c, d, n) == InvBy(yr, yi, c, d, n, GCD(d, n))

InvParts(yr, yi, c, d) ==
    IF ~(SafeMul(yr, yr) /\ SafeMul(yi, yi)) THEN Inexact
    ELSE InvNorm(yr, yi, c, d, yr * yr + yi * yi)

InvOver(y, c) == InvParts(y.re \div c, y.im \div c, c, y.den)

\* 1 / y for a finite y # 0
CInv(y) == InvOver(y, GCD(Abs(y.re), Abs(y.im)))

\* x / y; a zero divisor gives the non-finite value
CDiv(x, y) ==
    IF Special(x, y) THEN SpecialOf(x, y)
    ELSE IF y.re = 0 /\ y.im = 0 THEN NaN
    ELSE CMul(x, CInv(y))

\* np.real, np.imag: the part, as a number of the same kind
CReal(x) == IF Special(x, x) THEN x ELSE Mk(x.re, 0, x.den)

CImag(x) == IF Special(x, x) THEN x ELSE Mk(x.im, 0, x.den)

\* np.absolute(x) ** 2
CAbs2(x) == CMul(x, CConj(x))

\* abs() of a real number
RAbs(x) == [re |-> Abs(x.re), im |-> 0, den |-> x.den]

\* comparisons of np.real / np.imag with 0; every comparison with nan is false
\* but "!="
ReNeg(x) == x.den > 0 /\ x.re < 0

RePos(x) == x.den > 0 /\ x.re > 0

ReZero(x) == x.den > 0 /\ x.re = 0

ImNeg(x) == x.den > 0 /\ x.im < 0

\* integer square roots within the search bound
IsSquare(n) == \E k \in 0..SqrtMax : k * k = n

ISqrt(n) == CHOOSE k \in 0..SqrtMax : k * k = n

\* the square root of the Gaussian integer a + i*b, b # 0, has real part x
IsRootRe(a, b, x) ==
    /\ b % (2 * x) = 0
    /\ SafeMul(b \div (2 * x), b \div (2 * x))
    /\ x * x - (b \div (2 * x)) * (b \div (2 * x)) = a

\* the principal square root of (a + i*b)/d^2
SqrtParts(a, b, d) ==
    IF b = 0
    THEN IF ~IsSquare(Abs(a)) THEN Inexact
         ELSE IF a >= 0 THEN Mk(ISqrt(a), 0, d) ELSE Mk(0, ISqrt(-a), d)
    ELSE IF ~(\E k \in 1..SqrtMax : IsRootRe(a, b, k)) THEN Inexact
         ELSE Mk(CHOOSE k \in 1..SqrtMax : IsRootRe(a, b, k),
                 b \div (2 * (CHOOSE k \in 1..SqrtMax : IsRootRe(a, b, k))), d)

\* np.sqrt: the principal square root (real part >= 0; on the negative real
\* axis the imaginary part is >= 0)
CSqrt(z) ==
    IF Special(z, z) THEN z
    ELSE IF ~(SafeMul(z.re, z.den) /\ SafeMul(z.im, z.den)) THEN Inexact
    ELSE SqrtParts(z.re * z.den, z.im * z.den, z.den)

\* exp(-pi/2), by a rational stand-in
EHalfPi == Mk(1, 0, 2)

RECURSIVE CPow(_, _)
CPow(z, n) == IF n = 0 THEN One ELSE CMul(z, CPow(z, n - 1))

\* i^n * exp(-pi/2)^k
ExpParts(n, k) ==
    CMul(CPow(ImagUnit, n % 4),
         IF k >= 0 THEN CPow(EHalfPi, k) ELSE CDiv(One, CPow(EHalfPi, -k)))

\* np.exp(1j * pi * x) = i^(2 Re x) * exp(-pi/2)^(2 Im x), for x a half-integer
\* in both parts
ExpIPi(x) ==
    IF Special(x, x) THEN x
    ELSE IF (2 * x.re) % x.den # 0 \/ (2 * x.im) % x.den # 0 THEN Inexact
    ELSE ExpParts((2 * x.re) \div x.den, (2 * x.im) \div x.den)

\* cos and sin from e = exp(i*pi*x) and its inverse
CosOf(e, einv) == CDiv(CAdd(e, einv), Two)

SinOf(e, einv) == CDiv(CSub(e, einv), CMul(Two, ImagUnit))

\* np.cos, np.sin of the phase pi*x
CosPi(x) == CosOf(ExpIPi(x), ExpIPi(CNeg(x)))

SinPi(x) == SinOf(ExpIPi(x), ExpIPi(CNeg(x)))

(***************************************************************************)
(* Arrays.  An array over the wavelength axis is a sequence indexed        *)
(* 1..len_wl; an array over the layers is a function on 0..g-1 (Python's   *)
(* indices); a batched 2x2 matrix M is M[a][b][i], a, b in 0..1.           *)
(***************************************************************************)
\* an array given by a rule, with its elements computed once
Arr(f) == f @@ <<>>

Arr2(f) == Arr([i \in DOMAIN f |-> Arr(f[i])])

Mat(m00, m01, m10, m11) ==
    LET e00 == Arr(m00)
        e01 == Arr(m01)
        e10 == Arr(m10)
        e11 == Arr(m11)
    IN  (0 :> (0 :> e00 @@ 1 :> e01)) @@ (1 :> (0 :> e10 @@ 1 :> e11))

zeros(len_wl) == [i \in 1..len_wl |-> Zero]

ones(len_wl) == [i \in 1..len_wl |-> One]

(***************************************************************************)
(* The collaborators of the routines: the materials and their dispersion, *)
(* the unit conversion, the sine of the incidence angle.                   *)
(***************************************************************************)
\* struct.materials: the material lists of the stacks of the model
MaterialLists == {<<"air", "glass", "lossy", "gain">>, <<"dense", "film", "air">>}

\* Permittivity of a material at a wavelength (nm): air 1, glass 1.5^2,
\* dense 2.5^2, film 13/4, lossy 2^2 at 1 nm and (1+i)^2 elsewhere, gain 2^2
\* at 1 nm and (1-i)^2 elsewhere, crown 1.25^2, negidx -1 (with permeability
\* -1), hybrid 2i (with permeability -1)
EpsilonOf(mat, wl) ==
    CASE mat = "air" -> One
      [] mat = "glass" -> Mk(9, 0, 4)
      [] mat = "dense" -> Mk(25, 0, 4)
      [] mat = "lossy" -> IF wl = One THEN Cx(4, 0) ELSE Cx(0, 2)
      [] mat = "gain" -> IF wl = One THEN Cx(4, 0) ELSE Cx(0, -2)
      [] mat = "film" -> Mk(13, 0, 4)
      [] mat = "crown" -> Mk(25, 0, 16)
      [] mat = "negidx" -> Mk(-1, 0, 1)
      [] mat = "hybrid" -> Cx(0, 2)
      [] OTHER -> One

MuOf(mat, wl) == IF mat \in {"negidx", "hybrid"} THEN Mk(-1, 0, 1) ELSE One

\* struct.polarizability_opti_wavelength(wavelength): Epsilon[i][m], Mu[i][m]
\* for wavelength index i and material index m (0-based)
polarizability_opti_wavelength(struct, wavelength) ==
    [Epsilon |-> Arr2([i \in 1..Len(wavelength) |-> [m \in 0..(Len(struct.materials) - 1) |->
                      EpsilonOf(struct.materials[m + 1], wavelength[i])]]),
     Mu |-> Arr2([i \in 1..Len(wavelength) |-> [m \in 0..(Len(struct.materials) - 1) |->
                      MuOf(struct.materials[m + 1], wavelength[i])]])]

\* conv_to_nm(wavelength, unit): a new array, in nanometres
conv_to_nm(wavelength, unit) ==
    [i \in 1..Len(wavelength) |->
        CMul(wavelength[i], IF unit = "um" THEN Cx(1000, 0) ELSE One)]

\* np.sin(incidence) for the incidence angles of the model: 0, asin(3/5), pi/2
Sin(incidence) ==
    CASE incidence = "normal" -> Zero
      [] incidence = "oblique" -> Mk(3, 0, 5)
      [] OTHER -> One

(***************************************************************************)
(* The wavevector step, the same lines in the three routines: the local   *)
(* copy of the thickness, Epsilon and Mu, alpha, gamma and its three       *)
(* branch rules, and the admittances gf.  wavelength is the array of       *)
(* values the caller passed.  Each stage hands what it computed to the     *)
(* next one.                                                               *)
(***************************************************************************)
\* the copy without thickness[0] = 0
LocalThickness_stored(struct) ==
    [k \in 0..(Len(struct.thickness) - 1) |-> struct.thickness[k + 1]]

\* thickness = copy.deepcopy(struct.thickness); thickness[0] = 0
LocalThickness(struct) ==
    [k \in 0..(Len(struct.thickness) - 1) |-> IF k = 0 THEN 0 ELSE struct.thickness[k + 1]]

\* Type = struct.layer_type, indexed from 0
LayerType(struct) == [k \in 0..(Len(struct.layer_type) - 1) |-> struct.layer_type[k + 1]]

\* k0 = 2 * pi / wavelength, in units of pi
K0(wl) == Arr([i \in 1..Len(wl) |-> CDiv(Two, wl[i])])

\* Epsilon[:,m] * Mu[:,m] * k0 ** 2 - alpha ** 2 at wavelength index i
GammaArg(pol, m, k0, alpha, i) ==
    CSub(CMul(CMul(pol.Epsilon[i][m], pol.Mu[i][m]), CMul(k0[i], k0[i])),
         CMul(alpha[i], alpha[i]))

\* alpha = sqrt(Epsilon_first * Mu_first) * k0 * sin(incidence)
Alpha(pol, Type, k0, incidence, len_wl) ==
    Arr([i \in 1..len_wl |->
        CMul(CMul(CSqrt(CMul(pol.Epsilon[i][Type[0]], pol.Mu[i][Type[0]])), k0[i]),
             Sin(incidence))])

\* gamma = sqrt(Epsilon[:,Type] * Mu[:,Type] * k0 ** 2 - alpha ** 2)
GammaSqrt(pol, Type, k0, alpha, len_wl, g) ==
    Arr2([i \in 1..len_wl |-> [k \in 0..(g - 1) |->
        CSqrt(GammaArg(pol, Type[k], k0, alpha, i))]])

\* negative-index upper medium: np.putmask(gamma[:,0], mask, -gamma[:,0])
FirstLayerRule(gamma, pol, Type, len_wl, g) ==
    Arr2([i \in 1..len_wl |-> [k \in 0..(g - 1) |->
        IF k = 0 /\ ReNeg(pol.Epsilon[i][Type[0]]) /\ ReNeg(pol.Mu[i][Type[0]])
        THEN CNeg(gamma[i][0]) ELSE gamma[i][k]]])

\* if g > 2: gamma[:,1:g-2] = gamma[:,1:g-2] * (1 - 2 * (imag(gamma[:,1:g-2]) < 0));
\* the slice 1:g-2 holds the layers 1..g-3
InteriorRule(gamma, len_wl, g) ==
    Arr2([i \in 1..len_wl |-> [k \in 0..(g - 1) |->
        IF g > 2 /\ k >= 1 /\ k < g - 2 /\ ImNeg(gamma[i][k])
        THEN CNeg(gamma[i][k]) ELSE gamma[i][k]]])

\* gamma_new of the last medium
GammaNew(pol, Type, k0, alpha, len_wl, g) ==
    Arr([i \in 1..len_wl |-> CSqrt(GammaArg(pol, Type[g - 1], k0, alpha, i))])

\* the mask without its third condition, np.real(gamma_new) != 0
LastMask_signs(pol, Type, gamma_new, len_wl, g) ==
    Arr([i \in 1..len_wl |->
        /\ ReNeg(pol.Epsilon[i][Type[g - 1]])
        /\ ReNeg(pol.Mu[i][Type[g - 1]])])

\* mask and not_mask of the outgoing wave condition
LastMask(pol, Type, gamma_new, len_wl, g) ==
    Arr([i \in 1..len_wl |->
        /\ ReNeg(pol.Epsilon[i][Type[g - 1]])
        /\ ReNeg(pol.Mu[i][Type[g - 1]])
        /\ ~ReZero(gamma_new[i])])

LastNotMask(pol, Type, gamma_new, len_wl, g) ==
    Arr([i \in 1..len_wl |->
        \/ RePos(pol.Epsilon[i][Type[g - 1]])
        \/ RePos(pol.Mu[i][Type[g - 1]])
        \/ ReZero(gamma_new[i])])

\* np.putmask(gamma[:,g-1], mask, -gamma_new), then
\* np.putmask(gamma[:,g-1], not_mask, gamma_new)
LastLayerRule(gamma, gamma_new, mask, not_mask, len_wl, g) ==
    Arr2([i \in 1..len_wl |-> [k \in 0..(g - 1) |->
        IF k # g - 1 THEN gamma[i][k]
        ELSE IF not_mask[i] THEN gamma_new[i]
        ELSE IF mask[i] THEN CNeg(gamma_new[i])
        ELSE gamma[i][k]]])

\* f = Mu in TE (polarization 0), Epsilon in TM
Weight(pol, polarization) == IF polarization = 0 THEN pol.Mu ELSE pol.Epsilon

\* gf = gamma / f[:,Type], and everything the routines read further on
WithGamma(struct, polarization, len_wl, g, Type, pol, gamma_sqrt, gamma_new, mask, not_mask, gamma) ==
    [len_wl |-> len_wl, g |-> g, Type |-> Type, f |-> Weight(pol, polarization),
     gamma |-> gamma,
     gf |-> Arr2([i \in 1..len_wl |-> [k \in 0..(g - 1) |->
                CDiv(gamma[i][k], Weight(pol, polarization)[i][Type[k]])]]),
     gamma_sqrt |-> gamma_sqrt, gamma_new |-> gamma_new, mask |-> mask, not_mask |-> not_mask,
     Epsilon |-> pol.Epsilon, Mu |-> pol.Mu,
     thickness |-> LocalThickness(struct)]

\* the three branch rules in the order of the code
WithMasks(struct, polarization, len_wl, g, Type, pol, gamma_sqrt, gamma_new, mask, not_mask) ==
    WithGamma(struct, polarization, len_wl, g, Type, pol, gamma_sqrt, gamma_new, mask, not_mask,
              LastLayerRule(InteriorRule(FirstLayerRule(gamma_sqrt, pol, Type, len_wl, g),
                                         len_wl, g),
                            gamma_new, mask, not_mask, len_wl, g))

WithRoots(struct, polarization, len_wl, g, Type, pol, gamma_sqrt, gamma_new) ==
    WithMasks(struct, polarization, len_wl, g, Type, pol, gamma_sqrt, gamma_new,
              LastMask(pol, Type, gamma_new, len_wl, g),
              LastNotMask(pol, Type, gamma_new, len_wl, g))

WithAlpha(struct, polarization, len_wl, g, Type, pol, k0, alpha) ==
    WithRoots(struct, polarization, len_wl, g, Type, pol,
              GammaSqrt(pol, Type, k0, alpha, len_wl, g),
              GammaNew(pol, Type, k0, alpha, len_wl, g))

WithPolarizability(struct, incidence, polarization, len_wl, g, Type, pol, k0) ==
    WithAlpha(struct, polarization, len_wl, g, Type, pol, k0,
              Alpha(pol, Type, k0, incidence, len_wl))

\* wl: the wavelength in nanometres
WithUnits(struct, wl, incidence, polarization) ==
    WithPolarizability(struct, incidence, polarization, Len(wl), Len(struct.layer_type),
                       LayerType(struct), polarizability_opti_wavelength(struct, wl), K0(wl))

Wavevectors(struct, wavelength, incidence, polarization) ==
    WithUnits(struct,
              IF struct.unit # "nm" THEN conv_to_nm(wavelength, struct.unit) ELSE wavelength,
              incidence, polarization)

(***************************************************************************)
(* coefficient_S_opti_wavelength: the scattering matrices and their        *)
(* cascade.                                                                *)
(***************************************************************************)
\* the cascade with S[1, 0] = B[1, 0] * A[1, 0], the factor t left out
CascadeDirectWith(A, B, len_wl, t) ==
    Mat([i \in 1..len_wl |->
            CAdd(A[0][0][i], CMul(CMul(CMul(A[0][1][i], B[0][0][i]), A[1][0][i]), t[i]))],
        [i \in 1..len_wl |-> CMul(CMul(A[0][1][i], B[0][1][i]), t[i])],
        [i \in 1..len_wl |-> CMul(B[1][0][i], A[1][0][i])],
        [i \in 1..len_wl |->
            CAdd(B[1][1][i], CMul(CMul(CMul(A[1][1][i], B[0][1][i]), B[1][0][i]), t[i]))])

\* S from A, B and t
CascadeWith(A, B, len_wl, t) ==
    Mat([i \in 1..len_wl |->
            CAdd(A[0][0][i], CMul(CMul(CMul(A[0][1][i], B[0][0][i]), A[1][0][i]), t[i]))],
        [i \in 1..len_wl |-> CMul(CMul(A[0][1][i], B[0][1][i]), t[i])],
        [i \in 1..len_wl |-> CMul(CMul(B[1][0][i], A[1][0][i]), t[i])],
        [i \in 1..len_wl |->
            CAdd(B[1][1][i], CMul(CMul(CMul(A[1][1][i], B[0][1][i]), B[1][0][i]), t[i]))])

\* t = 1 / (1 - B[0, 0] * A[1, 1])
CascadeT(A, B, len_wl) ==
    Arr([i \in 1..len_wl |-> CDiv(One, CSub(One, CMul(B[0][0][i], A[1][1][i])))])

cascade_opti_wavelength_direct(A, B, len_wl) ==
    CascadeDirectWith(A, B, len_wl, CascadeT(A, B, len_wl))

cascade_opti_wavelength(A, B, len_wl) == CascadeWith(A, B, len_wl, CascadeT(A, B, len_wl))

\* the phase of the first wavelength, used at every wavelength index
Phase_first(w, i, k) == CMul(w.gamma[1][k], Cx(w.thickness[k], 0))

\* the phase gamma[:,k] * thickness[0,k], in units of pi
Phase(w, i, k) == CMul(w.gamma[i][k], Cx(w.thickness[k], 0))

\* [[0, t], [t, 0]]
Propagation(t, len_wl) == Mat(zeros(len_wl), t, t, zeros(len_wl))

\* T[2k+1]: the layer scattering matrix of layer k, t = exp(1j * gamma * thickness)
LayerS(w, k) == Propagation(Arr([i \in 1..w.len_wl |-> ExpIPi(Phase(w, i, k))]), w.len_wl)

\* T[2k+2]: the interface scattering matrix between layers k and k+1,
\* b1 = gf[:,k], b2 = gf[:,k+1]
InterfaceS(w, k) ==
    Mat([i \in 1..w.len_wl |->
            CDiv(CSub(w.gf[i][k], w.gf[i][k + 1]), CAdd(w.gf[i][k], w.gf[i][k + 1]))],
        [i \in 1..w.len_wl |->
            CDiv(CMul(Two, w.gf[i][k + 1]), CAdd(w.gf[i][k], w.gf[i][k + 1]))],
        [i \in 1..w.len_wl |->
            CDiv(CMul(Two, w.gf[i][k]), CAdd(w.gf[i][k], w.gf[i][k + 1]))],
        [i \in 1..w.len_wl |->
            CDiv(CSub(w.gf[i][k + 1], w.gf[i][k]), CAdd(w.gf[i][k], w.gf[i][k + 1]))])

\* T[j] of the S routine, j in 0..2g-2 (T[2g-1] is built and never cascaded)
ScatT(w, j) ==
    IF j = 0 THEN Mat(zeros(w.len_wl), ones(w.len_wl), ones(w.len_wl), zeros(w.len_wl))
    ELSE IF j % 2 = 1 THEN LayerS(w, (j - 1) \div 2)
    ELSE InterfaceS(w, (j - 2) \div 2)

\* A[j]: A[0] = T[0], A[j+1] = cascade(A[j], T[j+1])
RECURSIVE ScatA(_, _)
ScatA(w, j) ==
    IF j = 0 THEN ScatT(w, 0)
    ELSE cascade_opti_wavelength(ScatA(w, j - 1), ScatT(w, j), w.len_wl)

\* R = real(abs(r) ** 2), T = real(abs(t) ** 2 * gamma[:,g-1] * f[:,Type[0]] /
\* (gamma[:,0] * f[:,Type[g-1]]))
ScatCoefficients(w, r, t) ==
    [status |-> "ok", r |-> r, t |-> t,
     R |-> Arr([i \in 1..w.len_wl |-> CReal(CAbs2(r[i]))]),
     T |-> Arr([i \in 1..w.len_wl |->
              CReal(CMul(CAbs2(t[i]),
                         CDiv(CMul(w.gamma[i][w.g - 1], w.f[i][w.Type[0]]),
                              CMul(w.gamma[i][0], w.f[i][w.Type[w.g - 1]]))))]),
     absorb |-> <<>>]

\* r = A[len(A)-1][:,0,0], t = A[len(A)-1][:,1,0]
ScatLast(w, last) == ScatCoefficients(w, last[0][0], last[1][0])

\* len(A) - 1 = 2g - 2
ScatResult(w) == ScatLast(w, ScatA(w, 2 * w.g - 2))

coefficient_S_opti_wavelength(struct, wavelength, incidence, polarization) ==
    ScatResult(Wavevectors(struct, wavelength, incidence, polarization))

(***************************************************************************)
(* coefficient_A_opti_wavelength and absorption_A_opti_wavelength: the     *)
(* Abeles layer matrices, their product and the coefficients.  A batched   *)
(* matrix is again M[a][b][i].                                             *)
(***************************************************************************)
\* [[c, -s/gf], [gf*s, c]] of layer k
LayerMatrix(w, k, c, s) ==
    Mat(c,
        [i \in 1..w.len_wl |-> CDiv(CNeg(s[i]), w.gf[i][k])],
        [i \in 1..w.len_wl |-> CMul(w.gf[i][k], s[i])],
        c)

\* T[k], with c, s the cosine and sine of gamma[:,k] * thickness[0,k]
AbelesT(w, k) ==
    LayerMatrix(w, k, Arr([i \in 1..w.len_wl |-> CosPi(Phase(w, i, k))]),
                Arr([i \in 1..w.len_wl |-> SinPi(Phase(w, i, k))]))

\* np.matmul(X, Y) over the wavelength axis
MatMul(X, Y, len_wl) ==
    Arr2([a \in 0..1 |-> [b \in 0..1 |-> Arr([i \in 1..len_wl |->
        CAdd(CMul(X[a][0][i], Y[0][b][i]), CMul(X[a][1][i], Y[1][b][i]))])]])

\* the partial product A[k] = T[k] T[k-1] ... T[0], k in 0..g-2
RECURSIVE AbelesA(_, _)
AbelesA(w, k) ==
    IF k = 0 THEN AbelesT(w, 0)
    ELSE MatMul(AbelesT(w, k), AbelesA(w, k - 1), w.len_wl)

\* x - 1j * gf[:,0] * y and x + 1j * gf[:,0] * y at wavelength index i
MinusI(w, x, y, i) == CSub(x[i], CMul(CMul(ImagUnit, w.gf[i][0]), y[i]))

PlusI(w, x, y, i) == CAdd(x[i], CMul(CMul(ImagUnit, w.gf[i][0]), y[i]))

\* r = -(c_m_d + 1j * gf[:,g-1] * a_m_b) / (c_p_d + 1j * gf[:,g-1] * a_p_b)
Reflection(w, A) ==
    Arr([i \in 1..w.len_wl |->
        CNeg(CDiv(CAdd(MinusI(w, A[1][0], A[1][1], i),
                       CMul(CMul(ImagUnit, w.gf[i][w.g - 1]), MinusI(w, A[0][0], A[0][1], i))),
                  CAdd(PlusI(w, A[1][0], A[1][1], i),
                       CMul(CMul(ImagUnit, w.gf[i][w.g - 1]), PlusI(w, A[0][0], A[0][1], i)))))])

\* t = a * (r + 1) + 1j * gf[:,0] * b * (r - 1)
Transmission(w, A, r) ==
    Arr([i \in 1..w.len_wl |->
        CAdd(CMul(A[0][0][i], CAdd(r[i], One)),
             CMul(CMul(CMul(ImagUnit, w.gf[i][0]), A[0][1][i]), CSub(r[i], One)))])

\* R = real(abs(r) ** 2), T = real(abs(t) ** 2 * gf[:,g-1] / gf[:,0])
Energies(w, r, t) ==
    [r |-> r, t |-> t,
     R |-> Arr([i \in 1..w.len_wl |-> CReal(CAbs2(r[i]))]),
     T |-> Arr([i \in 1..w.len_wl |->
              CReal(CDiv(CMul(CAbs2(t[i]), w.gf[i][w.g - 1]), w.gf[i][0]))])]

WithReflection(w, A, r) == Energies(w, r, Transmission(w, A, r))

\* r, t, R, T from the matrix A of the whole structure
AbelesCoefficients(w, A) == WithReflection(w, A, Reflection(w, A))

\* T[0] of an empty T (one layer): IndexError
IndexError == [status |-> "IndexError", r |-> <<>>, t |-> <<>>, R |-> <<>>, T |-> <<>>,
               absorb |-> <<>>]

\* coefficient_A: the matrix A once the loop over T[1:] has run
GlobalMatrix(w) == AbelesA(w, w.g - 2)

\* return r, t, R, T
AbelesReturn(co) ==
    [status |-> "ok", r |-> co.r, t |-> co.t, R |-> co.R, T |-> co.T, absorb |-> <<>>]

AbelesResult(w) ==
    IF w.g - 1 = 0 THEN IndexError ELSE AbelesReturn(AbelesCoefficients(w, GlobalMatrix(w)))

coefficient_A_opti_wavelength(struct, wavelength, incidence, polarization) ==
    AbelesResult(Wavevectors(struct, wavelength, incidence, polarization))

\* absorption_A: the first retained partial product in the place of the last
LastPartial_first(w) == AbelesA(w, 0)

\* absorption_A: A[-1], the last of the retained partial products A[0..g-2]
LastPartial(w) == AbelesA(w, w.g - 2)

\* I[-1] = [t, -1j * gf * t] with the admittance of layer k
FieldLast(w, co, k) ==
    Arr([i \in 1..w.len_wl |->
        <<co.t[i], CMul(CMul(CNeg(ImagUnit), w.gf[i][k]), co.t[i])>>])

\* A[k] applied to (r + 1, 1j * gf[:,0] * (r - 1)), one component
FieldRow(w, co, A, a, i) ==
    CAdd(CMul(A[a][0][i], CAdd(co.r[i], One)),
         CMul(A[a][1][i], CMul(CMul(ImagUnit, w.gf[i][0]), CSub(co.r[i], One))))

FieldInner(w, co, A) ==
    Arr([i \in 1..w.len_wl |-> <<FieldRow(w, co, A, 0, i), FieldRow(w, co, A, 1, i)>>])

\* the fields with I[-1] = [t, -1j * gf[:,0] * t]
Field_first(w, k, co) ==
    IF k = w.g - 1 THEN FieldLast(w, co, 0) ELSE FieldInner(w, co, AbelesA(w, k))

\* I[k] = (E, dzE) at interface k, k in 0..g-1: from A[k] and r, the last one
\* from t
Field(w, k, co) ==
    IF k = w.g - 1 THEN FieldLast(w, co, w.g - 1) ELSE FieldInner(w, co, AbelesA(w, k))

\* the flux of the field I
Flux(w, polarization, I) ==
    Arr([i \in 1..w.len_wl |->
        IF polarization = 0
        THEN CReal(CDiv(CMul(CMul(CNeg(ImagUnit), I[i][1]), CConj(I[i][2])), w.gf[i][0]))
        ELSE CReal(CDiv(CMul(CMul(ImagUnit, CConj(I[i][1])), I[i][2]), w.gf[i][0]))])

\* poynting[k,:]
Poynting(w, k, co, polarization) == Flux(w, polarization, Field(w, k, co))

\* poynting, a row per interface
PoyntingRows(w, co, polarization) ==
    Arr([k \in 0..(w.g - 1) |-> Poynting(w, k, co, polarization)])

\* diff_poynting transposed, columns 0..g-2
DiffColumns(w, poynting) ==
    Arr2([i \in 1..w.len_wl |-> [k \in 0..(w.g - 2) |->
        RAbs(CNeg(CSub(poynting[k + 1][i], poynting[k][i])))]])

\* absorb without the row of zeros: diff_poynting transposed
Absorb_diff(w, co, polarization) == DiffColumns(w, PoyntingRows(w, co, polarization))

\* diff_poynting = abs(-np.diff(poynting, axis=0)) under a row of zeros,
\* transposed
AbsorbColumns(w, poynting) ==
    Arr2([i \in 1..w.len_wl |-> [k \in 0..(w.g - 1) |->
        IF k = 0 THEN zeros(w.len_wl)[i]
        ELSE RAbs(CNeg(CSub(poynting[k][i], poynting[k - 1][i])))]])

\* absorb: a row per wavelength, a column per layer (0-based); column 0 is
\* the row of zeros, column k >= 1 is |poynting[k-1] - poynting[k]|
Absorb(w, co, polarization) == AbsorbColumns(w, PoyntingRows(w, co, polarization))

\* return r, t, R, T, absorb
AbsorptionReturn(w, co, polarization) ==
    [status |-> "ok", r |-> co.r, t |-> co.t, R |-> co.R, T |-> co.T,
     absorb |-> Absorb(w, co, polarization)]

AbsorptionResult(w, polarization) ==
    IF w.g - 1 = 0 THEN IndexError
    ELSE AbsorptionReturn(w, AbelesCoefficients(w, LastPartial(w)), polarization)

absorption_A_opti_wavelength(struct, wavelength, incidence, polarization) ==
    AbsorptionResult(Wavevectors(struct, wavelength, incidence, polarization), polarization)

(***************************************************************************)
(* What a call leaves in the objects the caller passed.                    *)
(***************************************************************************)
\* thickness[0] = 0 written to struct.thickness itself (no deep copy)
ThicknessAfterCall_alias(struct) ==
    [k \in DOMAIN struct.thickness |-> IF k = 1 THEN 0 ELSE struct.thickness[k]]

\* struct.thickness after the call: thickness[0] = 0 is written to the deep
\* copy, so the caller's list keeps its elements
ThicknessAfterCall(struct) == struct.thickness

\* the caller's wavelength array after the call: wavelength.shape = (len_wl, 1)
\* is set on the object that was passed; its values are not written
WavelengthAfterCall(wavelength) == [wavelength EXCEPT !.shape = "col"]

\* the array of values a routine reads from the caller's array
ValuesOf(wavelength) == [i \in 1..Len(wavelength.values) |-> Cx(wavelength.values[i], 0)]

(***************************************************************************)
(* The state: the caller's stack description, wavelength array and         *)
(* arguments, the value the last call returned, and the sweep in progress. *)
(***************************************************************************)
VARIABLES struct, wavelength, incidence, polarization, out, sweep

vars == <<struct, wavelength, incidence, polarization, out, sweep>>

NoOut == [op |-> "none"]

NoSweep == [fn |-> "none"]

\* the stacks of the model: 1..MaxLayers layers of the materials, one
\* thickness 1..MaxThick stored for every layer (the first one included)
StacksOf(materials) ==
    {[materials |-> materials, layer_type |-> lt, thickness |-> [k \in 1..Len(lt) |-> d],
      unit |-> "nm", Anisotropic |-> FALSE] :
        lt \in UNION {[1..n -> 0..(Len(materials) - 1)] : n \in 1..MaxLayers},
        d \in 1..MaxThick}

Stacks == UNION {StacksOf(materials) : materials \in MaterialLists}

\* the wavelength arrays: increasing values (nm) out of 1..MaxLambda
WavelengthValues ==
    {v \in UNION {[1..n -> 1..MaxLambda] : n \in 1..MaxLambda} :
        \A i \in 1..(Len(v) - 1) : v[i] < v[i + 1]}

Incidences == {"normal", "oblique", "grazing"}

ExactNumber(z) == ~IsInexact(z)

ExactResult(res) ==
    /\ \A i \in DOMAIN res.r : ExactNumber(res.r[i]) /\ ExactNumber(res.t[i])
                               /\ ExactNumber(res.R[i]) /\ ExactNumber(res.T[i])
    /\ \A i \in DOMAIN res.absorb : \A k \in DOMAIN res.absorb[i] : ExactNumber(res.absorb[i][k])

\* the inputs on which the arithmetic of the model is exact
Exact(st, wl, inc, pol) ==
    /\ ExactResult(coefficient_S_opti_wavelength(st, ValuesOf(wl), inc, pol))
    /\ ExactResult(absorption_A_opti_wavelength(st, ValuesOf(wl), inc, pol))

Init ==
    /\ struct \in Stacks
    /\ incidence \in Incidences
    /\ polarization \in {0, 1}
    /\ \E v \in WavelengthValues :
          /\ Exact(struct, [values |-> v, shape |-> "1d"], incidence, polarization)
          /\ wavelength \in [values : {v}, shape : {"1d", "col"}]
    /\ out = NoOut
    /\ sweep = NoSweep

\* a call of one of the three routines on the caller's objects
Call(op, res) ==
    /\ out.op = "none"
    /\ out' = [op |-> op, res |-> res]
    /\ struct' = [struct EXCEPT !.thickness = ThicknessAfterCall(struct)]
    /\ wavelength' = WavelengthAfterCall(wavelength)
    /\ UNCHANGED <<incidence, polarization, sweep>>

CallS == Call("S", coefficient_S_opti_wavelength(struct, ValuesOf(wavelength), incidence, polarization))

CallA == Call("A", coefficient_A_opti_wavelength(struct, ValuesOf(wavelength), incidence, polarization))

CallAbsorption ==
    Call("absorption",
         absorption_A_opti_wavelength(struct, ValuesOf(wavelength), incidence, polarization))

\* the caller has taken the returned value (or caught the exception)
Return ==
    /\ out.op # "none"
    /\ out' = NoOut
    /\ UNCHANGED <<struct, wavelength, incidence, polarization, sweep>>

Next == CallS \/ CallA \/ CallAbsorption \/ Return

Spec == Init /\ [][Next]_vars

(***************************************************************************)
(* spectrum and angular: the sweeps that call coefficient once per point.  *)
(***************************************************************************)
\* np.linspace(lo, hi, n): the n points lo + k (hi - lo)/(n - 1), each a
\* fraction <<numerator, denominator>>
linspace(lo, hi, n) ==
    [k \in 1..n |-> IF n = 1 THEN <<lo, 1>> ELSE <<lo * (n - 1) + (k - 1) * (hi - lo), n - 1>>]

\* core.coefficient(structure, wavelength, incidence, polarization): the
\* tuple (r, t, R, T) it returns, known by the call that produced it
coefficient(structure, wl, theta, pol) ==
    [layer_type |-> structure.layer_type, wavelength |-> wl, incidence |-> theta,
     polarization |-> pol]

\* spectrum(structure, incidence, polarization, wl_min, wl_max, n_points):
\* the message printed, the calls of coefficient and the arrays returned
spectrum(structure, inc, pol, wl_min, wl_max, n_points) ==
    LET wl == linspace(wl_min, wl_max, n_points)
        values == [k \in 1..n_points |-> coefficient(structure, wl[k], inc, pol)]
    IN  [fn |-> "spectrum",
         printed |-> IF structure.Anisotropic THEN <<"Anisotropic spectrum not yet defined">>
                     ELSE <<>>,
         calls |-> values,
         returned |-> [x |-> wl, values |-> values]]

\* angular(structure, wavelength, polarization, theta_min, theta_max,
\* n_points): the angles are in degrees, coefficient gets incidence[k]/180*pi
\* (here the fraction of pi)
angular(structure, wl, pol, theta_min, theta_max, n_points) ==
    LET theta == linspace(theta_min, theta_max, n_points)
        values == [k \in 1..n_points |->
                    coefficient(structure, wl, <<theta[k][1], theta[k][2] * 180>>, pol)]
    IN  [fn |-> "angular",
         printed |-> IF structure.Anisotropic THEN <<"Anisotropic angular not yet defined">>
                     ELSE <<>>,
         calls |-> values,
         returned |-> [x |-> theta, values |-> values]]

\* the stacks handed to the sweeps: two layers, isotropic or anisotropic
SweepStacks ==
    {[st EXCEPT !.Anisotropic = a] : st \in {x \in Stacks : Len(x.layer_type) = 2},
                                     a \in BOOLEAN}

InitSweep ==
    /\ struct \in SweepStacks
    /\ incidence \in Incidences
    /\ polarization \in {0, 1}
    /\ wavelength \in [values : {<<v>> : v \in 1..MaxLambda}, shape : {"1d"}]
    /\ out = NoOut
    /\ sweep = NoSweep

Spectrum ==
    /\ sweep.fn = "none"
    /\ \E n_points \in 0..MaxPoints :
          sweep' = spectrum(struct, incidence, polarization, 1, MaxLambda, n_points)
    /\ UNCHANGED <<struct, wavelength, incidence, polarization, out>>

Angular ==
    /\ sweep.fn = "none"
    /\ \E n_points \in 0..MaxPoints :
          sweep' = angular(struct, wavelength.values[1], polarization, 0, 90, n_points)
    /\ UNCHANGED <<struct, wavelength, incidence, polarization, out>>

\* the caller has taken the arrays the sweep returned
SweepReturn ==
    /\ sweep.fn # "none"
    /\ sweep' = NoSweep
    /\ UNCHANGED <<struct, wavelength, incidence, polarization, out>>

NextSweep == Spectrum \/ Angular \/ SweepReturn

SpecSweep == InitSweep /\ [][NextSweep]_vars

(***************************************************************************)
(* The wavevector step on its own: the statements the three routines share *)
(* up to the last np.putmask, on stacks of up to MaxWaveLayers layers that *)
(* include gain, negative-index and mixed-sign media.                      *)
(***************************************************************************)
\* struct.materials of the stacks of the wavevector step
WaveMaterials == <<"air", "crown", "gain", "negidx", "hybrid">>

WaveStacks ==
    {[materials |-> WaveMaterials, layer_type |-> lt, thickness |-> [k \in 1..Len(lt) |-> 1],
      unit |-> "nm", Anisotropic |-> FALSE] :
        lt \in UNION {[1..n -> 0..(Len(WaveMaterials) - 1)] : n \in 1..MaxWaveLayers}}

\* the wavevectors on which the arithmetic of the model is exact
ExactWave(w) ==
    \A i \in 1..w.len_wl :
        /\ ExactNumber(w.gamma_new[i])
        /\ \A k \in 0..(w.g - 1) : ExactNumber(w.gamma_sqrt[i][k])

InitWave ==
    /\ struct \in WaveStacks
    /\ incidence \in Incidences
    /\ polarization \in {0, 1}
    /\ \E v \in WavelengthValues :
          /\ ExactWave(Wavevectors(struct, [i \in 1..Len(v) |-> Cx(v[i], 0)], incidence,
                                   polarization))
          /\ wavelength = [values |-> v, shape |-> "1d"]
    /\ out = NoOut
    /\ sweep = NoSweep

\* a routine has run up to the last np.putmask on gamma
Step(op) ==
    /\ out.op = "none"
    /\ out' = [op |-> "wavevectors", routine |-> op,
               res |-> Wavevectors(struct, ValuesOf(wavelength), incidence, polarization)]
    /\ struct' = [struct EXCEPT !.thickness = ThicknessAfterCall(struct)]
    /\ wavelength' = WavelengthAfterCall(wavelength)
    /\ UNCHANGED <<incidence, polarization, sweep>>

StepS == Step("S")

StepA == Step("A")

StepAbsorption == Step("absorption")

\* the routine has run to its end
StepReturn ==
    /\ out.op = "wavevectors"
    /\ out' = NoOut
    /\ UNCHANGED <<struct, wavelength, incidence, polarization, sweep>>

NextWave == StepS \/ StepA \/ StepAbsorption \/ StepReturn

SpecWave == InitWave /\ [][NextWave]_vars

\* a state in which one of the three routines has just returned normally
Returned(op) == out.op = op /\ out.res.status = "ok"

(***************************************************************************)
(* C1: a call of coefficient_S_opti_wavelength, coefficient_A_opti_        *)
(* wavelength or absorption_A_opti_wavelength leaves every element of the  *)
(* caller's struct.thickness as it was, thickness[0] included, while the   *)
(* thickness the computation uses for the first layer is 0.                *)
(***************************************************************************)
C1_ThicknessUnchanged ==
    [][(out.op = "none" /\ out'.op # "none") =>
          /\ struct'.thickness = struct.thickness
          /\ LocalThickness(struct)[0] = 0]_vars

\* a call has been made on a stack whose stored thickness[0] is not 0
C1_Witness ==
    /\ Returned("absorption")
    /\ Len(struct.thickness) = 3
    /\ struct.thickness[1] # 0
    /\ LocalThickness(struct)[0] = 0

(***************************************************************************)
(* C2: a call of any of the three routines leaves the caller's wavelength  *)
(* array, values and shape, as it was.                                     *)
(***************************************************************************)
C2_WavelengthUnchanged ==
    [][(out.op = "none" /\ out'.op # "none") => wavelength' = wavelength]_vars

\* the wavevector step and the Abeles routine on the caller's current inputs
CurrentW == Wavevectors(struct, ValuesOf(wavelength), incidence, polarization)

CurrentA == coefficient_A_opti_wavelength(struct, ValuesOf(wavelength), incidence, polarization)

SameCoefficients(x, y) == x.r = y.r /\ x.t = y.t /\ x.R = y.R /\ x.T = y.T

\* no element of r, t, R, T is the outcome of a division by zero
Finite(res) ==
    \A i \in DOMAIN res.r :
        ~IsNaN(res.r[i]) /\ ~IsNaN(res.t[i]) /\ ~IsNaN(res.R[i]) /\ ~IsNaN(res.T[i])

\* at least 2 layers and no zero admittance sum b1 + b2 at any interface
NonDegenerate(w) ==
    /\ w.g >= 2
    /\ \A i \in 1..w.len_wl : \A k \in 0..(w.g - 2) :
          CAdd(w.gf[i][k], w.gf[i][k + 1]) # Zero

\* the admittance of every layer but the last is not zero
NonzeroAdmittances(w) ==
    \A i \in 1..w.len_wl : \A k \in 0..(w.g - 2) : w.gf[i][k] # Zero

ClosedForm(res, w) ==
    \A i \in 1..w.len_wl :
        LET gf0 == w.gf[i][0]
            gf1 == w.gf[i][1]
        IN  /\ res.r[i] = CDiv(CSub(gf0, gf1), CAdd(gf0, gf1))
            /\ res.t[i] = CDiv(CMul(Two, gf0), CAdd(gf0, gf1))

\* a routine has been called on two half-spaces with gf0 + gf1 # 0
TwoLayerCall ==
    /\ out.op \in {"S", "A", "absorption"}
    /\ CurrentW.g = 2
    /\ NonDegenerate(CurrentW)

\* air over glass at normal incidence
AirGlassNormal ==
    /\ Len(struct.layer_type) = 2
    /\ struct.materials[struct.layer_type[1] + 1] = "air"
    /\ struct.materials[struct.layer_type[2] + 1] = "glass"
    /\ incidence = "normal"

(***************************************************************************)
(* C4 as stated: on two half-spaces with gf0 + gf1 # 0 each routine        *)
(* returns the closed-form r and t whatever thicknesses are stored, and    *)
(* air over glass at normal incidence gives r = -1/5, R = 1/25, T = 24/25. *)
(***************************************************************************)
C4_Fresnel ==
    TwoLayerCall =>
        /\ out.res.status = "ok"
        /\ ClosedForm(out.res, CurrentW)
        /\ AirGlassNormal =>
              \A i \in DOMAIN out.res.r :
                  /\ out.res.r[i] = Mk(-1, 0, 5)
                  /\ out.res.R[i] = Mk(1, 0, 25)
                  /\ out.res.T[i] = Mk(24, 0, 25)

(***************************************************************************)
(* C4 amended: on two half-spaces with gf0 + gf1 # 0 the S routine always, *)
(* and the two Abeles routines when gf0 # 0, return the closed-form r and  *)
(* t whatever thicknesses are stored; air over glass at normal incidence   *)
(* gives R = 1/25, T = 24/25 and r = -1/5 in TE, r = +1/5 in TM.           *)
(***************************************************************************)
C4_FresnelNonzero ==
    TwoLayerCall =>
        /\ out.res.status = "ok"
        /\ (out.op = "S" \/ NonzeroAdmittances(CurrentW)) => ClosedForm(out.res, CurrentW)
        /\ AirGlassNormal =>
              \A i \in DOMAIN out.res.r :
                  /\ out.res.r[i] = IF polarization = 0 THEN Mk(-1, 0, 5) ELSE Mk(1, 0, 5)
                  /\ out.res.R[i] = Mk(1, 0, 25)
                  /\ out.res.T[i] = Mk(24, 0, 25)

\* the Abeles routine has returned for air over glass in TM, at two
\* wavelengths, with a nonzero thickness stored for the first layer
C4_Witness ==
    /\ Returned("A") /\ TwoLayerCall /\ AirGlassNormal
    /\ polarization = 1
    /\ CurrentW.len_wl = 2
    /\ struct.thickness[1] # 0
    /\ out.res.r[1] = Mk(1, 0, 5)

(***************************************************************************)
(* C5: for g >= 2 layers absorption_A_opti_wavelength returns absorb with  *)
(* len_wl rows and g columns, the column of the first layer being zero at  *)
(* every wavelength.                                                       *)
(***************************************************************************)
C5_AbsorbShape ==
    (out.op = "absorption" /\ Len(struct.layer_type) >= 2) =>
        /\ out.res.status = "ok"
        /\ DOMAIN out.res.absorb = 1..Len(wavelength.values)
        /\ \A i \in DOMAIN out.res.absorb :
              /\ DOMAIN out.res.absorb[i] = 0..(Len(struct.layer_type) - 1)
              /\ out.res.absorb[i][0] = Zero

\* absorption has returned for three layers and two wavelengths, with power
\* absorbed in a layer
C5_Witness ==
    /\ Returned("absorption")
    /\ Len(struct.layer_type) = 3 /\ Len(wavelength.values) = 2
    /\ \E i \in 1..2 : \E k \in 1..2 :
          ~IsNaN(out.res.absorb[i][k]) /\ out.res.absorb[i][k] # Zero

(***************************************************************************)
(* C6: absorption_A_opti_wavelength returns the (r, t, R, T) that          *)
(* coefficient_A_opti_wavelength returns on the same inputs.               *)
(***************************************************************************)
C6_SameAsCoefficientA ==
    (out.op = "absorption") =>
        /\ out.res.status = CurrentA.status
        /\ SameCoefficients(out.res, CurrentA)

\* absorption has returned for three layers with a finite, nonzero r
C6_Witness ==
    /\ Returned("absorption")
    /\ Len(struct.layer_type) = 3
    /\ Finite(out.res)
    /\ \E i \in DOMAIN out.res.r : out.res.r[i] # Zero
    /\ LastPartial(CurrentW) # AbelesA(CurrentW, 0)

\* the sum of the row absorb[i, :] over the columns 0..k
RECURSIVE SumRow(_, _)
SumRow(row, k) == IF k = 0 THEN row[0] ELSE CAdd(SumRow(row, k - 1), row[k])

\* 1 - R[i] - T[i]
OneMinusRT(res, i) == CSub(CSub(One, res.R[i]), res.T[i])

\* sum(absorb[i, :]) = 1 - R[i] - T[i] at every wavelength index
AbsorptionConsistent(res, w) ==
    \A i \in 1..w.len_wl : SumRow(res.absorb[i], w.g - 1) = OneMinusRT(res, i)

\* the coefficients r and t the absorption routine computes its fields from
CurrentCo == AbelesCoefficients(CurrentW, LastPartial(CurrentW))

\* the Poynting flux does not grow from an interface to the next one
FluxNonIncreasing(w, co, pol) ==
    \A i \in 1..w.len_wl : \A k \in 1..(w.g - 1) :
        ~RePos(CSub(Poynting(w, k, co, pol)[i], Poynting(w, k - 1, co, pol)[i]))

\* the admittance of the incidence medium is real at every wavelength
RealIncidenceAdmittance(w) == \A i \in 1..w.len_wl : w.gf[i][0].im = 0

(***************************************************************************)
(* C7 as stated: in absorption_A_opti_wavelength the sum over the layers   *)
(* of absorb equals 1 - R - T at every wavelength index.                   *)
(***************************************************************************)
C7_AbsorptionSum ==
    Returned("absorption") => AbsorptionConsistent(out.res, CurrentW)

(***************************************************************************)
(* C7 amended: the sum over the layers of absorb equals 1 - R - T at every *)
(* wavelength index when the results are finite, the admittance gf0 of the *)
(* incidence medium is real and the Poynting flux does not grow from one   *)
(* interface to the next (no layer with gain).                             *)
(***************************************************************************)
C7_AbsorptionSumPassive ==
    (/\ Returned("absorption")
     /\ Finite(out.res)
     /\ RealIncidenceAdmittance(CurrentW)
     /\ FluxNonIncreasing(CurrentW, CurrentCo, polarization)) =>
        AbsorptionConsistent(out.res, CurrentW)

\* absorption has returned for three layers with power absorbed in the
\* middle one, the flux decreasing
C7_Witness ==
    /\ Returned("absorption")
    /\ Finite(out.res)
    /\ RealIncidenceAdmittance(CurrentW)
    /\ FluxNonIncreasing(CurrentW, CurrentCo, polarization)
    /\ CurrentW.g = 3
    /\ \E i \in 1..CurrentW.len_wl : RePos(out.res.absorb[i][1])

\* the routine op on the single wavelength wavelength[i]
Single(op, i) ==
    LET one == <<ValuesOf(wavelength)[i]>>
    IN  CASE op = "S" -> coefficient_S_opti_wavelength(struct, one, incidence, polarization)
          [] op = "A" -> coefficient_A_opti_wavelength(struct, one, incidence, polarization)
          [] OTHER -> absorption_A_opti_wavelength(struct, one, incidence, polarization)

(***************************************************************************)
(* C8: for each routine the outputs at wavelength index i (r, t, R, T and  *)
(* the row absorb[i, :]) are those the routine returns on the single       *)
(* wavelength wavelength[i].                                               *)
(***************************************************************************)
C8_Elementwise ==
    (out.op \in {"S", "A", "absorption"} /\ out.res.status = "ok") =>
        \A i \in 1..Len(wavelength.values) :
            LET one == Single(out.op, i)
            IN  /\ one.status = "ok"
                /\ out.res.r[i] = one.r[1] /\ out.res.t[i] = one.t[1]
                /\ out.res.R[i] = one.R[1] /\ out.res.T[i] = one.T[1]
                /\ out.op = "absorption" => out.res.absorb[i] = one.absorb[1]

\* absorption has returned for three layers and two wavelengths with
\* different results at the two
C8_Witness ==
    /\ Returned("absorption")
    /\ Len(struct.layer_type) = 3 /\ Len(wavelength.values) = 2
    /\ Finite(out.res)
    /\ out.res.r[1] # out.res.r[2]
    /\ out.res.absorb[1] # out.res.absorb[2]

(***************************************************************************)
(* C9: on a stack of a single layer each of the three routines completes   *)
(* without an error and returns r = 0, t = 1, R = 0, T = 1 at every        *)
(* wavelength.                                                             *)
(***************************************************************************)
C9_SingleLayerPassThrough ==
    (out.op \in {"S", "A", "absorption"} /\ Len(struct.layer_type) = 1) =>
        /\ out.res.status = "ok"
        /\ out.res.r = zeros(Len(wavelength.values))
        /\ out.res.t = ones(Len(wavelength.values))
        /\ out.res.R = zeros(Len(wavelength.values))
        /\ out.res.T = ones(Len(wavelength.values))

(***************************************************************************)
(* C10: when structure.Anisotropic is true, spectrum and angular report    *)
(* that the case is not implemented and do not compute: after the report   *)
(* coefficient is not called and no computed values are returned.          *)
(***************************************************************************)
C10_AnisotropicNotComputed ==
    (sweep.fn \in {"spectrum", "angular"} /\ struct.Anisotropic) =>
        /\ Len(sweep.printed) = 1
        /\ sweep.calls = <<>>
        /\ sweep.returned.values = <<>>
\* a state in which the wavevector step of one of the three routines has run
AfterStep == out.op = "wavevectors"

(***************************************************************************)
(* C11: after the wavevector step of each of the three routines, on a      *)
(* stack of g >= 3 layers, Im(gamma[k]) >= 0 at every wavelength for every *)
(* interior layer k, 1 <= k <= g-2.                                        *)
(***************************************************************************)
C11_InteriorDecaying ==
    (AfterStep /\ out.res.g >= 3) =>
        \A i \in 1..out.res.len_wl : \A k \in 1..(out.res.g - 2) :
            ~ImNeg(out.res.gamma[i][k])

\* Epsilon_new, Mu_new at wavelength index i: the last layer's material
EpsilonLast(w, i) == w.Epsilon[i][w.Type[w.g - 1]]

MuLast(w, i) == w.Mu[i][w.Type[w.g - 1]]

\* Re(Epsilon_last) < 0 and Re(Mu_last) < 0 and Re(gamma_new) != 0
NegativeBranch(w, i) ==
    ReNeg(EpsilonLast(w, i)) /\ ReNeg(MuLast(w, i)) /\ ~ReZero(w.gamma_new[i])

(***************************************************************************)
(* C12: after the wavevector step, at every wavelength, the gamma of the   *)
(* last layer is -gamma_new when Re(Epsilon_last) < 0, Re(Mu_last) < 0 and *)
(* Re(gamma_new) # 0, and gamma_new in every other case, the case that     *)
(* neither mask nor not_mask selects the element included; mask and        *)
(* not_mask are never both true for an element.                            *)
(***************************************************************************)
C12_LastLayerBranch ==
    AfterStep =>
        \A i \in 1..out.res.len_wl :
            /\ out.res.gamma[i][out.res.g - 1] =
                    IF NegativeBranch(out.res, i) THEN CNeg(out.res.gamma_new[i])
                    ELSE out.res.gamma_new[i]
            /\ ~(out.res.mask[i] /\ out.res.not_mask[i])

\* the step has run at two wavelengths on a stack whose last medium has
\* Re(Epsilon) = 0 and Re(Mu) < 0: neither mask selects the element and the
\* last gamma is the nonzero gamma_new
C12_Witness ==
    /\ AfterStep
    /\ out.res.len_wl = 2
    /\ out.res.g >= 2
    /\ \A i \in 1..out.res.len_wl :
          /\ ~out.res.mask[i]
          /\ ~out.res.not_mask[i]
          /\ ReZero(EpsilonLast(out.res, i))
          /\ out.res.gamma[i][out.res.g - 1] = out.res.gamma_new[i]
          /\ out.res.gamma_new[i] # Zero

====
